---- MODULE Spec2Model ----
(***************************************************************************)
(* Model of app.py: the /cat-ink request handler (get_cat_ink), the source *)
(* resolver (get_best_cat_url / fetch_cat_json), the image pipeline        *)
(* (process_cat_image) and the single-slot global cache                    *)
(* (cached_image_buffer, last_generation_time).                            *)
(*                                                                         *)
(* A request is a process that walks through the handler line by line.     *)
(* Spec serialises requests (one handler runs at a time); SpecConc lets    *)
(* the handlers of different requests interleave.                          *)
(***************************************************************************)
EXTENDS Integers, Sequences, FiniteSets, TLC

(***************************************************************************)
(* Program constants (app.py lines 10-12).                                 *)
(***************************************************************************)
DISPLAY_WIDTH == 800
DISPLAY_HEIGHT == 480
CACHE_DURATION == 3600

(***************************************************************************)
(* Bounds of the model.                                                    *)
(***************************************************************************)
NumProcs == 2
MaxRequests == 3
MaxTicks == 2
NChunks == 2
StartTime == 5000
MaxSrcWidth == 200
MaxSrcHeight == 120

Procs == 1..NumProcs

\* Amounts by which the wall clock advances between two steps.
TickSteps == {1, CACHE_DURATION - 1}

\* Identities of the pictures the provider can deliver.
Images == {"catA", "catB"}

\* Sizes (width, height) of the pictures the provider can deliver.
ImgSizes == {<<1600, 1600>>, <<195, 117>>}

\* Sizes of the pictures the crop-to-fill computation is checked on.
GeomSizes ==
    ((1..MaxSrcWidth) \X (1..MaxSrcHeight))
    \cup {<<800, 480>>, <<1600, 1600>>, <<1600, 960>>, <<4000, 3000>>,
          <<1920, 1080>>, <<801, 480>>, <<800, 483>>, <<480, 800>>}

(***************************************************************************)
(* Python values.                                                          *)
(***************************************************************************)
\* None, as the value of a name that otherwise holds a string.
NONE == "None"
\* None, as the value of a name that otherwise holds a BytesIO object.
NullRef == 0
\* Marks a key that a JSON object does not have.
Missing == "<missing>"

\* bool(v) for None and strings.
Truthy(v) == v \notin {NONE, ""}

\* d.get(key) and d.get(key, default) on the value stored under the key.
Get(v, default) == IF v = Missing THEN default ELSE v

\* a or b
PyOr(a, b) == IF Truthy(a) THEN a ELSE b

(***************************************************************************)
(* Python float arithmetic (IEEE-754 binary64, round to nearest even), as  *)
(* used by the crop-to-fill computation: int / int, int * float,           *)
(* float > float and int(float).  A positive float is a record             *)
(* [m, e]: m is the 53-bit significand, most significant bit first and     *)
(* equal to 1, and the value is m * 2^e.                                   *)
(***************************************************************************)
MantBits == 53

Bit == {0, 1}

Pow2[n \in Nat] == IF n = 0 THEN 1 ELSE 2 * Pow2[n - 1]

BitsToNat[s \in Seq(Bit)] ==
    IF s = <<>> THEN 0
    ELSE 2 * BitsToNat[SubSeq(s, 1, Len(s) - 1)] + s[Len(s)]

NatToBits[x \in Nat] ==
    IF x = 0 THEN <<>> ELSE NatToBits[x \div 2] \o <<x % 2>>

\* The k with 2^k <= a/b < 2^(k+1), for positive integers a and b.
ExpUp[a \in Nat, b \in Nat, k \in Int] ==
    IF 2 * b <= a THEN ExpUp[a, 2 * b, k + 1] ELSE k

ExpDown[a \in Nat, b \in Nat, k \in Int] ==
    IF a < b THEN ExpDown[2 * a, b, k - 1] ELSE k

FloorLog2Ratio(a, b) == IF a >= b THEN ExpUp[a, b, 0] ELSE ExpDown[a, b, 0]

\* n further quotient bits of the long division with remainder r < den,
\* and the remainder left after them.
DivBits[r \in Nat, den \in Nat, n \in Nat] ==
    IF n = 0 THEN <<>>
    ELSE IF 2 * r >= den THEN <<1>> \o DivBits[2 * r - den, den, n - 1]
    ELSE <<0>> \o DivBits[2 * r, den, n - 1]

DivRem[r \in Nat, den \in Nat, n \in Nat] ==
    IF n = 0 THEN r ELSE DivRem[(2 * r) % den, den, n - 1]

\* s + 1 on a bit string that is not all ones.
IncBits(s) ==
    LET j == CHOOSE i \in 1..Len(s) :
                 s[i] = 0 /\ \A l \in (i + 1)..Len(s) : s[l] = 1
    IN  [i \in 1..Len(s) |-> IF i < j THEN s[i] ELSE IF i = j THEN 1 ELSE 0]

\* The float m * 2^e, one unit in the last place higher when up holds.
RoundFloat(m, e, up) ==
    IF ~up THEN [m |-> m, e |-> e]
    ELSE IF \A i \in 1..Len(m) : m[i] = 1
    THEN [m |-> [i \in 1..Len(m) |-> IF i = 1 THEN 1 ELSE 0], e |-> e + 1]
    ELSE [m |-> IncBits(m), e |-> e]

\* a / b for positive ints (Python true division, correctly rounded).
TrueDiv(a, b) ==
    LET k == FloorLog2Ratio(a, b)
        num == IF k >= 0 THEN a ELSE a * Pow2[-k]
        den == IF k >= 0 THEN b * Pow2[k] ELSE b
        m == <<1>> \o DivBits[num - den, den, MantBits - 1]
        rem == DivRem[num - den, den, MantBits - 1]
        up == \/ 2 * rem > den
              \/ 2 * rem = den /\ m[MantBits] = 1
    IN  RoundFloat(m, k - (MantBits - 1), up)

\* The bit string of s * n + carry, for a bit string s and a small n.
MulAcc[s \in Seq(Bit), n \in Nat, carry \in Nat] ==
    IF s = <<>> THEN NatToBits[carry]
    ELSE MulAcc[SubSeq(s, 1, Len(s) - 1), n, (s[Len(s)] * n + carry) \div 2]
         \o <<(s[Len(s)] * n + carry) % 2>>

\* n * f for a positive int n and a float f (the exact product, rounded).
MulIntFloat(n, f) ==
    LET p == MulAcc[f.m, n, 0]
        len == Len(p)
        m == SubSeq(p, 1, MantBits)
        guard == IF len > MantBits THEN p[MantBits + 1] ELSE 0
        sticky == \E i \in (MantBits + 2)..len : p[i] = 1
        up == guard = 1 /\ (sticky \/ m[MantBits] = 1)
    IN  RoundFloat(m, f.e + (len - MantBits), up)

\* x > y for positive floats.
BitsGT[s \in Seq(Bit), t \in Seq(Bit)] ==
    IF s = <<>> THEN FALSE
    ELSE IF s[1] # t[1] THEN s[1] > t[1]
    ELSE BitsGT[Tail(s), Tail(t)]

FloatGT(x, y) == x.e > y.e \/ (x.e = y.e /\ BitsGT[x.m, y.m])

\* int(f): truncation of a positive float.
FloatToInt(f) ==
    IF f.e >= 0 THEN BitsToNat[f.m] * Pow2[f.e]
    ELSE IF -f.e >= MantBits THEN 0
    ELSE BitsToNat[SubSeq(f.m, 1, MantBits + f.e)]

(***************************************************************************)
(* Crop to fill (process_cat_image, lines 101-116).  The result records    *)
(* the size the picture is resized to and the crop box                     *)
(* (left, upper, right, lower) handed to img.crop.                         *)
(***************************************************************************)
\* CenterOffset rounding the half up instead of down.
CenterOffsetCeil(scaled, target) == (scaled - target + 1) \div 2

\* Lines 109 and 115: top = (new_height - DISPLAY_HEIGHT) // 2 and
\* left = (new_width - DISPLAY_WIDTH) // 2 (floor division).
CenterOffset(scaled, target) == (scaled - target) \div 2

CropToFill(width, height) ==
    LET img_ratio == TrueDiv(width, height)
        target_ratio == TrueDiv(DISPLAY_WIDTH, DISPLAY_HEIGHT)
    IN  IF FloatGT(target_ratio, img_ratio)
        THEN LET scale == TrueDiv(DISPLAY_WIDTH, width)
                 new_height == FloatToInt(MulIntFloat(height, scale))
                 top == CenterOffset(new_height, DISPLAY_HEIGHT)
             IN  [axis |-> "height",
                  resized |-> <<DISPLAY_WIDTH, new_height>>,
                  box |-> <<0, top, DISPLAY_WIDTH, top + DISPLAY_HEIGHT>>]
        ELSE LET scale == TrueDiv(DISPLAY_HEIGHT, height)
                 new_width == FloatToInt(MulIntFloat(width, scale))
                 left == CenterOffset(new_width, DISPLAY_WIDTH)
             IN  [axis |-> "width",
                  resized |-> <<new_width, DISPLAY_HEIGHT>>,
                  box |-> <<left, 0, left + DISPLAY_WIDTH, DISPLAY_HEIGHT>>]

(***************************************************************************)
(* What the provider can answer.                                           *)
(***************************************************************************)
\* The result of fetch_cat_json (lines 30-59): None for a transport error,
\* a status other than 200 or a body that is not JSON; otherwise the parsed
\* JSON value: a falsy value ("empty"), a truthy value that is not an
\* object ("other"), or an object ("dict") with its three relevant keys.
NoData == [kind |-> "None", mimetype |-> Missing, _id |-> Missing, id |-> Missing]

MetaResponses ==
    {NoData}
    \cup [kind : {"empty", "other"}, mimetype : {Missing}, _id : {Missing},
          id : {Missing}]
    \cup [kind : {"dict"},
          mimetype : {Missing, NONE, "image/gif", "image/jpeg"},
          _id : {Missing, "", "a"},
          id : {Missing, "b"}]

\* if data:
DataTruthy(d) == d.kind \in {"other", "dict"}

\* "gif" in s, for the strings a mimetype takes in MetaResponses.
HasGif(s) == s \in {"image/gif"}

\* The result of requests.get(image_url) and Image.open (lines 95-99).
NoImg == [name |-> "", width |-> 0, height |-> 0]
Pictures == {[name |-> n, width |-> sz[1], height |-> sz[2]] :
                 n \in Images, sz \in ImgSizes}

\* The bytes out.save(buf, format='BMP') writes, in chunks of the size the
\* response reads them in.
BmpBytes(picture) == [i \in 1..NChunks |-> <<picture.name, i>>]

NoGeom == [axis |-> "", resized |-> <<0, 0>>, box |-> <<0, 0, 0, 0>>]

NoResp == [status |-> 0, mimetype |-> "", body |-> <<>>]
\* ErrProcessing with the status code left out of the return statement.
ErrProcessingNoStatus ==
    [status |-> 200, mimetype |-> "text/html",
     body |-> <<"Error processing image">>]

\* return "Error processing image", 500
ErrProcessing ==
    [status |-> 500, mimetype |-> "text/html",
     body |-> <<"Error processing image">>]
\* return "Failed to find a cat (API Down?)", 502
ErrNoCat ==
    [status |-> 502, mimetype |-> "text/html",
     body |-> <<"Failed to find a cat (API Down?)">>]
\* The answer Flask gives when the view function raises.
ErrUncaught ==
    [status |-> 500, mimetype |-> "text/html",
     body |-> <<"Internal Server Error">>]
\* send_file(..., mimetype='image/bmp'), before the body is read.
FileResp == [status |-> 200, mimetype |-> "image/bmp", body |-> <<>>]

(***************************************************************************)
(* State.                                                                  *)
(***************************************************************************)
VARIABLES
    clock,                  \* time.time()
    ticks,                  \* number of clock advances so far
    nreq,                   \* number of requests received so far
    last_generation_time,   \* global, line 17
    cached_image_buffer,    \* global, line 18: NullRef or a heap index
    heap,                   \* the BytesIO objects: [data, pos]
    pc,                     \* where each request is in get_cat_ink
    now,                    \* get_cat_ink: now
    attempt,                \* get_best_cat_url: iterations of the loop begun
    queries,                \* the tag_mode of each fetch_cat_json call made
    data,                   \* get_best_cat_url: data
    cat_url,                \* get_cat_ink: cat_url (the cat_id it is built from)
    downloads,              \* number of requests.get(image_url) calls made
    r,                      \* process_cat_image: outcome of requests.get
    img,                    \* process_cat_image: the decoded picture
    geom,                   \* process_cat_image: resize size and crop box
    processed,              \* get_cat_ink: processed
    file,                   \* the object handed to send_file
    resp                    \* the response of the request

globals == <<last_generation_time, cached_image_buffer>>
env == <<clock, ticks, nreq>>
resolver == <<attempt, queries, data, cat_url>>
pipeline == <<downloads, r, img, geom, processed>>
vars == <<clock, ticks, nreq, last_generation_time, cached_image_buffer, heap,
          pc, now, attempt, queries, data, cat_url, downloads, r, img, geom,
          processed, file, resp>>

Init ==
    /\ clock = StartTime
    /\ ticks = 0
    /\ nreq = 0
    /\ last_generation_time = 0
    /\ cached_image_buffer = NullRef
    /\ heap = <<>>
    /\ pc = [p \in Procs |-> "idle"]
    /\ now = [p \in Procs |-> 0]
    /\ attempt = [p \in Procs |-> 0]
    /\ queries = [p \in Procs |-> <<>>]
    /\ data = [p \in Procs |-> NoData]
    /\ cat_url = [p \in Procs |-> NONE]
    /\ downloads = [p \in Procs |-> 0]
    /\ r = [p \in Procs |-> "none"]
    /\ img = [p \in Procs |-> NoImg]
    /\ geom = [p \in Procs |-> NoGeom]
    /\ processed = [p \in Procs |-> NullRef]
    /\ file = [p \in Procs |-> NullRef]
    /\ resp = [p \in Procs |-> NoResp]

\* The wall clock advances.
Tick ==
    /\ ticks < MaxTicks
    /\ \E d \in TickSteps : clock' = clock + d
    /\ ticks' = ticks + 1
    /\ UNCHANGED <<nreq, globals, heap, pc, now, resolver, pipeline, file, resp>>

(***************************************************************************)
(* get_cat_ink, lines 134-159.                                             *)
(***************************************************************************)
\* A request arrives; line 138: now = time.time().
StartRequest(p) ==
    /\ pc[p] = "idle"
    /\ nreq < MaxRequests
    /\ nreq' = nreq + 1
    /\ now' = [now EXCEPT ![p] = clock]
    /\ resp' = [resp EXCEPT ![p] = NoResp]
    /\ pc' = [pc EXCEPT ![p] = "check_buffer"]
    /\ UNCHANGED <<clock, ticks, globals, heap, resolver, pipeline, file>>

\* Line 141, left operand: if cached_image_buffer and ...
CheckBuffer(p) ==
    /\ pc[p] = "check_buffer"
    /\ pc' = [pc EXCEPT ![p] = IF cached_image_buffer # NullRef
                               THEN "check_age" ELSE "fetch_tag"]
    /\ UNCHANGED <<env, globals, heap, now, resolver, pipeline, file, resp>>

\* now - last_generation_time < CACHE_DURATION
IsFresh(t, generated) == t - generated < CACHE_DURATION

\* Line 141, right operand.
CheckAge(p) ==
    /\ pc[p] = "check_age"
    /\ pc' = [pc EXCEPT ![p] = IF IsFresh(now[p], last_generation_time)
                               THEN "seek_cached" ELSE "fetch_tag"]
    /\ UNCHANGED <<env, globals, heap, now, resolver, pipeline, file, resp>>

\* Seek0 with the seek left out.
Seek0Skipped(h, b) == h

\* buf.seek(0)
Seek0(h, b) == [h EXCEPT ![b].pos = 0]

\* Line 143: cached_image_buffer.seek(0)
SeekCached(p) ==
    /\ pc[p] = "seek_cached"
    /\ heap' = Seek0(heap, cached_image_buffer)
    /\ pc' = [pc EXCEPT ![p] = "send_cached"]
    /\ UNCHANGED <<env, globals, now, resolver, pipeline, file, resp>>

\* Line 144: return send_file(cached_image_buffer, mimetype='image/bmp')
SendCached(p) ==
    /\ pc[p] = "send_cached"
    /\ file' = [file EXCEPT ![p] = cached_image_buffer]
    /\ resp' = [resp EXCEPT ![p] = FileResp]
    /\ pc' = [pc EXCEPT ![p] = "stream"]
    /\ UNCHANGED <<env, globals, heap, now, resolver, pipeline>>

\* The view function raised: Flask answers 500.
Raise(p) ==
    /\ resp' = [resp EXCEPT ![p] = ErrUncaught]
    /\ pc' = [pc EXCEPT ![p] = "done"]

(***************************************************************************)
(* get_best_cat_url, lines 61-90.                                          *)
(***************************************************************************)
\* Attempts with one more iteration.
AttemptsPlusOne == 2 + 1

\* for _ in range(2)
Attempts == 2

\* cat_id = data.get('_id') or data.get('id')
CatId(d) == PyOr(Get(d._id, NONE), Get(d.id, NONE))

\* One iteration of the loop (lines 69-79) on the data it fetched: it
\* returns a URL, goes on to the next iteration, or raises (data.get on a
\* value that is not a dict, "gif" in None).
PreferredOutcome(d) ==
    IF ~DataTruthy(d) THEN [kind |-> "next", id |-> NONE]
    ELSE IF d.kind # "dict" THEN [kind |-> "raise", id |-> NONE]
    ELSE IF Get(d.mimetype, "") = NONE THEN [kind |-> "raise", id |-> NONE]
    ELSE IF HasGif(Get(d.mimetype, "")) THEN [kind |-> "next", id |-> NONE]
    ELSE IF Truthy(CatId(d)) THEN [kind |-> "return", id |-> CatId(d)]
    ELSE [kind |-> "next", id |-> NONE]

\* The fallback (lines 84-90) on the data it fetched.
FallbackOutcome(d) ==
    IF ~DataTruthy(d) THEN [kind |-> "return", id |-> NONE]
    ELSE IF d.kind # "dict" THEN [kind |-> "raise", id |-> NONE]
    ELSE IF Truthy(CatId(d)) THEN [kind |-> "return", id |-> CatId(d)]
    ELSE [kind |-> "return", id |-> NONE]

\* Where the loop goes after an iteration that returned nothing.
AfterAttempt(n) == IF n < Attempts THEN "fetch_tag" ELSE "fetch_random"

\* Lines 68-79: one iteration, data = fetch_cat_json(tag_mode=True).
FetchTag(p) ==
    /\ pc[p] = "fetch_tag"
    /\ \E d \in MetaResponses :
         /\ data' = [data EXCEPT ![p] = d]
         /\ queries' = [queries EXCEPT ![p] = Append(@, TRUE)]
         /\ attempt' = [attempt EXCEPT ![p] = @ + 1]
         /\ LET o == PreferredOutcome(d)
            IN  CASE o.kind = "raise" ->
                       /\ Raise(p)
                       /\ UNCHANGED cat_url
                  [] o.kind = "return" ->
                       /\ cat_url' = [cat_url EXCEPT ![p] = o.id]
                       /\ pc' = [pc EXCEPT ![p] = "url_check"]
                       /\ UNCHANGED resp
                  [] o.kind = "next" ->
                       /\ pc' = [pc EXCEPT ![p] = AfterAttempt(attempt[p] + 1)]
                       /\ UNCHANGED <<cat_url, resp>>
    /\ UNCHANGED <<env, globals, heap, now, pipeline, file>>

\* Lines 84-90: data = fetch_cat_json(tag_mode=False).
FetchRandom(p) ==
    /\ pc[p] = "fetch_random"
    /\ \E d \in MetaResponses :
         /\ data' = [data EXCEPT ![p] = d]
         /\ queries' = [queries EXCEPT ![p] = Append(@, FALSE)]
         /\ LET o == FallbackOutcome(d)
            IN  CASE o.kind = "raise" ->
                       /\ Raise(p)
                       /\ UNCHANGED cat_url
                  [] o.kind = "return" ->
                       /\ cat_url' = [cat_url EXCEPT ![p] = o.id]
                       /\ pc' = [pc EXCEPT ![p] = "url_check"]
                       /\ UNCHANGED resp
    /\ UNCHANGED <<env, globals, heap, now, attempt, pipeline, file>>

\* Lines 150 and 159: if cat_url: ... ; return "Failed to find a cat", 502
\* (get_best_cat_url has returned: its local data is gone).
UrlCheck(p) ==
    /\ pc[p] = "url_check"
    /\ IF Truthy(cat_url[p])
       THEN /\ pc' = [pc EXCEPT ![p] = "download"]
            /\ UNCHANGED resp
       ELSE /\ pc' = [pc EXCEPT ![p] = "done"]
            /\ resp' = [resp EXCEPT ![p] = ErrNoCat]
    /\ data' = [data EXCEPT ![p] = NoData]
    /\ UNCHANGED <<env, globals, heap, now, attempt, queries, cat_url,
                   pipeline, file>>

(***************************************************************************)
(* process_cat_image, lines 92-128.                                        *)
(***************************************************************************)
\* Download with one retry of a failed download.
DownloadRetry(p) ==
    /\ pc[p] = "download"
    /\ downloads' = [downloads EXCEPT ![p] = @ + 1]
    /\ \/ /\ \E o \in {"transport_error", "non200"} : r' = [r EXCEPT ![p] = o]
          /\ pc' = [pc EXCEPT ![p] = IF downloads[p] = 0 THEN "download"
                                     ELSE "processed_check"]
          /\ UNCHANGED img
       \/ /\ r' = [r EXCEPT ![p] = "ok"]
          /\ \/ /\ pc' = [pc EXCEPT ![p] = "processed_check"]
                /\ UNCHANGED img
             \/ /\ \E pic \in Pictures : img' = [img EXCEPT ![p] = pic]
                /\ pc' = [pc EXCEPT ![p] = "crop"]
    /\ UNCHANGED <<env, globals, heap, now, resolver, geom, processed, file, resp>>

\* Lines 95-99: the download and the decoding.  A transport error and an
\* undecodable body raise inside the try block and end in "return None",
\* as a status other than 200 does.
Download(p) ==
    /\ pc[p] = "download"
    /\ downloads' = [downloads EXCEPT ![p] = @ + 1]
    /\ \/ /\ \E o \in {"transport_error", "non200"} : r' = [r EXCEPT ![p] = o]
          /\ pc' = [pc EXCEPT ![p] = "processed_check"]
          /\ UNCHANGED img
       \/ /\ r' = [r EXCEPT ![p] = "ok"]
          /\ \/ /\ pc' = [pc EXCEPT ![p] = "processed_check"]
                /\ UNCHANGED img
             \/ /\ \E pic \in Pictures : img' = [img EXCEPT ![p] = pic]
                /\ pc' = [pc EXCEPT ![p] = "crop"]
    /\ UNCHANGED <<env, globals, heap, now, resolver, geom, processed, file, resp>>

\* Lines 101-116: resize and crop.
Crop(p) ==
    /\ pc[p] = "crop"
    /\ geom' = [geom EXCEPT ![p] = CropToFill(img[p].width, img[p].height)]
    /\ pc' = [pc EXCEPT ![p] = "encode"]
    /\ UNCHANGED <<env, globals, heap, now, resolver, downloads, r, img,
                   processed, file, resp>>

\* Lines 121-124: buf = io.BytesIO(); out.save(buf); buf.seek(0)
NewBuffer(h, bytes) ==
    Seek0(Append(h, [data |-> bytes, pos |-> Len(bytes)]), Len(h) + 1)

\* Lines 118-128: quantize and encode; an exception raised here ends in
\* "return None".  process_cat_image returns: its locals are gone.
Encode(p) ==
    /\ pc[p] = "encode"
    /\ \/ UNCHANGED <<heap, processed>>
       \/ /\ heap' = NewBuffer(heap, BmpBytes(img[p]))
          /\ processed' = [processed EXCEPT ![p] = Len(heap) + 1]
    /\ img' = [img EXCEPT ![p] = NoImg]
    /\ geom' = [geom EXCEPT ![p] = NoGeom]
    /\ pc' = [pc EXCEPT ![p] = "processed_check"]
    /\ UNCHANGED <<env, globals, now, resolver, downloads, r, file, resp>>

(***************************************************************************)
(* get_cat_ink, lines 152-157, and the sending of the response.            *)
(***************************************************************************)
\* ProcessedCheck with the timestamp also refreshed when processing failed.
ProcessedCheckTouch(p) ==
    /\ pc[p] = "processed_check"
    /\ IF processed[p] # NullRef
       THEN /\ pc' = [pc EXCEPT ![p] = "store_buffer"]
            /\ UNCHANGED <<resp, last_generation_time>>
       ELSE /\ pc' = [pc EXCEPT ![p] = "done"]
            /\ resp' = [resp EXCEPT ![p] = ErrProcessing]
            /\ last_generation_time' = now[p]
    /\ UNCHANGED <<env, cached_image_buffer, heap, now, resolver, pipeline,
                   file>>

\* Lines 152 and 157: if processed: ... else: return "Error ...", 500
ProcessedCheck(p) ==
    /\ pc[p] = "processed_check"
    /\ IF processed[p] # NullRef
       THEN /\ pc' = [pc EXCEPT ![p] = "store_buffer"]
            /\ UNCHANGED resp
       ELSE /\ pc' = [pc EXCEPT ![p] = "done"]
            /\ resp' = [resp EXCEPT ![p] = ErrProcessing]
    /\ UNCHANGED <<env, globals, heap, now, resolver, pipeline, file>>

\* StoreBuffer keeping the buffer that is already cached.
StoreBufferIfEmpty(p) ==
    /\ pc[p] = "store_buffer"
    /\ cached_image_buffer' = IF cached_image_buffer = NullRef
                              THEN processed[p] ELSE cached_image_buffer
    /\ pc' = [pc EXCEPT ![p] = "store_time"]
    /\ UNCHANGED <<env, last_generation_time, heap, now, resolver, pipeline,
                   file, resp>>

\* Line 153: cached_image_buffer = processed
StoreBuffer(p) ==
    /\ pc[p] = "store_buffer"
    /\ cached_image_buffer' = processed[p]
    /\ pc' = [pc EXCEPT ![p] = "store_time"]
    /\ UNCHANGED <<env, last_generation_time, heap, now, resolver, pipeline,
                   file, resp>>

\* Line 154: last_generation_time = now
StoreTime(p) ==
    /\ pc[p] = "store_time"
    /\ last_generation_time' = now[p]
    /\ pc' = [pc EXCEPT ![p] = "send_generated"]
    /\ UNCHANGED <<env, cached_image_buffer, heap, now, resolver, pipeline,
                   file, resp>>

\* Line 155: return send_file(cached_image_buffer, mimetype='image/bmp')
SendGenerated(p) ==
    /\ pc[p] = "send_generated"
    /\ file' = [file EXCEPT ![p] = cached_image_buffer]
    /\ resp' = [resp EXCEPT ![p] = FileResp]
    /\ pc' = [pc EXCEPT ![p] = "stream"]
    /\ UNCHANGED <<env, globals, heap, now, resolver, pipeline>>

\* The response body of send_file: the file object is read from its
\* current position, one chunk per read, until a read returns nothing.
Stream(p) ==
    /\ pc[p] = "stream"
    /\ LET b == file[p]
       IN  IF heap[b].pos < Len(heap[b].data)
           THEN /\ resp' = [resp EXCEPT
                              ![p].body = Append(@, heap[b].data[heap[b].pos + 1])]
                /\ heap' = [heap EXCEPT ![b].pos = @ + 1]
                /\ UNCHANGED pc
           ELSE /\ pc' = [pc EXCEPT ![p] = "done"]
                /\ UNCHANGED <<heap, resp>>
    /\ UNCHANGED <<env, globals, now, resolver, pipeline, file>>

\* The response has been delivered; the locals of the call are gone.
Finish(p) ==
    /\ pc[p] = "done"
    /\ pc' = [pc EXCEPT ![p] = "idle"]
    /\ now' = [now EXCEPT ![p] = 0]
    /\ attempt' = [attempt EXCEPT ![p] = 0]
    /\ queries' = [queries EXCEPT ![p] = <<>>]
    /\ data' = [data EXCEPT ![p] = NoData]
    /\ cat_url' = [cat_url EXCEPT ![p] = NONE]
    /\ downloads' = [downloads EXCEPT ![p] = 0]
    /\ r' = [r EXCEPT ![p] = "none"]
    /\ img' = [img EXCEPT ![p] = NoImg]
    /\ geom' = [geom EXCEPT ![p] = NoGeom]
    /\ processed' = [processed EXCEPT ![p] = NullRef]
    /\ file' = [file EXCEPT ![p] = NullRef]
    /\ resp' = [resp EXCEPT ![p] = NoResp]
    /\ UNCHANGED <<env, globals, heap>>

(***************************************************************************)
(* Specifications.                                                         *)
(***************************************************************************)
Step(p) ==
    \/ StartRequest(p)
    \/ CheckBuffer(p)
    \/ CheckAge(p)
    \/ SeekCached(p)
    \/ SendCached(p)
    \/ FetchTag(p)
    \/ FetchRandom(p)
    \/ UrlCheck(p)
    \/ Download(p)
    \/ Crop(p)
    \/ Encode(p)
    \/ ProcessedCheck(p)
    \/ StoreBuffer(p)
    \/ StoreTime(p)
    \/ SendGenerated(p)
    \/ Stream(p)
    \/ Finish(p)

\* No other request is being handled.
Alone(p) == \A q \in Procs \ {p} : pc[q] = "idle"

\* Requests are handled one at a time.
Next ==
    \/ Tick
    \/ \E p \in Procs : Alone(p) /\ Step(p)

Spec == Init /\ [][Next]_vars

\* The provider's answers in the runs with concurrent requests: every
\* metadata query answers a candidate that is accepted (data is NoData only
\* while nothing is fetched), the download answers 200 with one picture or
\* with a body that cannot be decoded, and the encoding succeeds or fails.
\* The failures of the provider are covered by the runs of Spec.
ConcMeta ==
    {NoData,
     [kind |-> "dict", mimetype |-> "image/jpeg", _id |-> "a", id |-> Missing]}

ConcPictures ==
    {NoImg} \cup {pic \in Pictures : pic.width = pic.height /\ pic.name = "catA"}

\* The handler threads that run concurrently.
ConcProcs == {1, 2}

\* Requests are handled by concurrent threads.  The clock is read by line
\* 138 only, so it is advanced only while a thread waits for a request.
NextConc ==
    \/ Tick /\ \E p \in ConcProcs : pc[p] = "idle"
    \/ \E p \in ConcProcs :
         /\ Step(p)
         /\ data'[p] \in ConcMeta
         /\ Len(queries'[p]) > Len(queries[p]) => data'[p] # NoData
         /\ img'[p] \in ConcPictures
         /\ r'[p] \in {"none", "ok"}

SpecConc == Init /\ [][NextConc]_vars

TypeOK ==
    /\ cached_image_buffer \in 0..Len(heap)
    /\ \A p \in Procs : processed[p] \in 0..Len(heap) /\ file[p] \in 0..Len(heap)
    /\ \A b \in 1..Len(heap) : heap[b].pos \in 0..Len(heap[b].data)

(***************************************************************************)
(* The crop-to-fill step on its own: a request that has just decoded a     *)
(* picture of any size in GeomSizes runs lines 101-116.                    *)
(***************************************************************************)
GeomInit ==
    /\ clock = StartTime
    /\ ticks = 0
    /\ nreq = 1
    /\ last_generation_time = 0
    /\ cached_image_buffer = NullRef
    /\ heap = <<>>
    /\ pc = [p \in Procs |-> IF p = 1 THEN "crop" ELSE "idle"]
    /\ now = [p \in Procs |-> IF p = 1 THEN StartTime ELSE 0]
    /\ attempt = [p \in Procs |-> IF p = 1 THEN 1 ELSE 0]
    /\ queries = [p \in Procs |-> IF p = 1 THEN <<TRUE>> ELSE <<>>]
    /\ data = [p \in Procs |-> NoData]
    /\ cat_url = [p \in Procs |-> IF p = 1 THEN "a" ELSE NONE]
    /\ downloads = [p \in Procs |-> IF p = 1 THEN 1 ELSE 0]
    /\ r = [p \in Procs |-> IF p = 1 THEN "ok" ELSE "none"]
    /\ \E sz \in GeomSizes :
         img = [p \in Procs |->
                  IF p = 1
                  THEN [name |-> "catA", width |-> sz[1], height |-> sz[2]]
                  ELSE NoImg]
    /\ geom = [p \in Procs |-> NoGeom]
    /\ processed = [p \in Procs |-> NullRef]
    /\ file = [p \in Procs |-> NullRef]
    /\ resp = [p \in Procs |-> NoResp]

GeomNext == Crop(1)

SpecGeom == GeomInit /\ [][GeomNext]_vars

(***************************************************************************)
(* Properties.                                                             *)
(***************************************************************************)
\* The request of p tried to produce a fresh image and did not get one:
\* get_best_cat_url or process_cat_image returned None.
RegenerationFailed(p) ==
    /\ pc[p] = "done"
    /\ queries[p] # <<>>
    /\ processed[p] = NullRef
    /\ resp[p] # ErrUncaught

\* The response is the complete bitmap held in buffer b, served as a
\* success.
ServesBuffer(p, b) ==
    /\ resp[p].status = 200
    /\ resp[p].mimetype = "image/bmp"
    /\ resp[p].body = heap[b].data

\* C1: a request whose regeneration fails while a previously generated
\* buffer is held answers with that stale buffer and a success status
\* (200, image/bmp), not with an error.
C1_StaleServedOnFailure ==
    \A p \in Procs :
        (RegenerationFailed(p) /\ cached_image_buffer # NullRef)
            => ServesBuffer(p, cached_image_buffer)

\* The request of p found the cache fresh: a buffer generated by an earlier
\* request is held and is younger than CACHE_DURATION at the request's now.
InFresh(p) ==
    /\ pc[p] # "idle"
    /\ cached_image_buffer \notin {NullRef, processed[p]}
    /\ IsFresh(now[p], last_generation_time)

C3_NeverReturnsGif ==
    \A p \in Procs :
        (pc[p] = "url_check" /\ Truthy(cat_url[p]))
            => ~HasGif(Get(data[p].mimetype, ""))

\* C4: a request that ends with the cache still empty (nothing was ever
\* cached and its regeneration failed) answers 500 or 502 with a text
\* body, never 200, and the timestamp is untouched.
C4_ErrorWhenEmpty ==
    \A p \in Procs :
        (pc[p] = "done" /\ cached_image_buffer = NullRef) =>
            /\ resp[p].status \in {500, 502}
            /\ resp[p] \in {ErrProcessing, ErrNoCat, ErrUncaught}
            /\ last_generation_time = 0

\* A regeneration has failed with nothing cached and has been answered.
C4_Witness ==
    \E p \in Procs :
        /\ RegenerationFailed(p)
        /\ cached_image_buffer = NullRef
        /\ downloads[p] = 1
        /\ resp[p].status = 500

\* C5, steps: the buffer changes only in line 153 of a request whose
\* regeneration succeeded, the timestamp only in line 154 of the same
\* request, right after its buffer was stored.
C5_Step ==
    /\ cached_image_buffer' # cached_image_buffer =>
         \E p \in Procs :
             /\ pc[p] = "store_buffer" /\ pc'[p] = "store_time"
             /\ processed[p] # NullRef
             /\ cached_image_buffer' = processed[p]
    /\ last_generation_time' # last_generation_time =>
         \E p \in Procs :
             /\ pc[p] = "store_time"
             /\ cached_image_buffer = processed[p]
             /\ last_generation_time' = now[p]

\* C5, both fields together: a request that is past its two stores holds
\* its own buffer and its own now in the cache; every other request leaves
\* the entry alone (C5_Step).
C5_Together ==
    \A p \in Procs :
        (pc[p] \in {"send_generated", "stream", "done"} /\ processed[p] # NullRef)
            => /\ cached_image_buffer = processed[p]
               /\ last_generation_time = now[p]

\* C5: the cache entry changes only in a request whose regeneration
\* succeeded, and then buffer and timestamp change together; a cache hit
\* and a failed regeneration leave both as they were.
C5_EntryChangesOnlyOnSuccess == [][C5_Step]_vars /\ []C5_Together

\* A second successful regeneration has overwritten the entry of the first.
C5_Witness ==
    \E p \in Procs :
        /\ pc[p] = "done"
        /\ processed[p] > 1
        /\ cached_image_buffer = processed[p]
        /\ last_generation_time = now[p]

\* The crop box lies inside the resized picture and is exactly the display
\* size; the resized picture has the display size on the axis that is not
\* cropped and at least the display size on the other.
CropInside(g) ==
    /\ g.box[3] - g.box[1] = DISPLAY_WIDTH
    /\ g.box[4] - g.box[2] = DISPLAY_HEIGHT
    /\ g.box[1] >= 0 /\ g.box[2] >= 0
    /\ g.box[3] <= g.resized[1] /\ g.box[4] <= g.resized[2]
    /\ g.axis = "height" =>
         g.resized[1] = DISPLAY_WIDTH /\ g.resized[2] >= DISPLAY_HEIGHT
    /\ g.axis = "width" =>
         g.resized[2] = DISPLAY_HEIGHT /\ g.resized[1] >= DISPLAY_WIDTH

\* C6: for every source size the crop yields DISPLAY_WIDTH x DISPLAY_HEIGHT
\* pixels taken entirely from the resized picture (no padding).
C6_CropInsideScaled ==
    \A p \in Procs : pc[p] = "encode" => CropInside(geom[p])

\* C7: a source whose aspect ratio equals the display's exactly is resized
\* to exactly DISPLAY_WIDTH x DISPLAY_HEIGHT and the crop offset is 0.
C7_ExactRatioNoCrop ==
    \A p \in Procs :
        (/\ pc[p] = "encode"
         /\ img[p].width * DISPLAY_HEIGHT = img[p].height * DISPLAY_WIDTH)
            => /\ geom[p].resized = <<DISPLAY_WIDTH, DISPLAY_HEIGHT>>
               /\ geom[p].box = <<0, 0, DISPLAY_WIDTH, DISPLAY_HEIGHT>>

\* C8: no exception escapes get_best_cat_url or process_cat_image into the
\* request handler: no request is answered by Flask's handler for an
\* exception raised in the view function.
C8_NoExceptionEscapes == \A p \in Procs : resp[p] # ErrUncaught

\* A usable candidate: a successful answer that is not a GIF and has an
\* identifier.
Usable(d) ==
    /\ d.kind = "dict"
    /\ ~HasGif(Get(d.mimetype, ""))
    /\ Truthy(CatId(d))

\* C9, order and bounds: the queries of one resolver call are a prefix of
\* (preferred, preferred, fallback).
C9_Order ==
    \A p \in Procs :
        /\ Len(queries[p]) <= 3
        /\ \A i \in 1..Len(queries[p]) : queries[p][i] = (i <= 2)

\* C9, steps: a further query is issued only while nothing has been
\* returned and the answer to the previous query was not usable.
C9_Step ==
    \A p \in Procs :
        (Len(queries'[p]) > Len(queries[p]) /\ queries[p] # <<>>)
            => ~Truthy(cat_url[p]) /\ ~Usable(data[p])

\* C9: at most two preferred queries, then at most one fallback query, the
\* fallback only after both preferred attempts ended without a usable
\* candidate, and no query after the first usable candidate.
C9_QueryBound == [][C9_Step]_vars /\ []C9_Order

\* Two GIF answers, then the fallback has been queried and gave a URL.
C9_Witness ==
    \E p \in Procs :
        /\ queries[p] = <<TRUE, TRUE, FALSE>>
        /\ pc[p] = "url_check"
        /\ Truthy(cat_url[p])

\* C10: with no usable cache, a failure of the upstream provider (no
\* candidate from the metadata queries, or a download that hit a transport
\* error or a status other than 200) is answered 502, and an internal
\* processing failure 500.
C10_StatusByCause ==
    \A p \in Procs :
        (RegenerationFailed(p) /\ cached_image_buffer = NullRef)
            => IF ~Truthy(cat_url[p]) \/ r[p] \in {"transport_error", "non200"}
               THEN resp[p].status = 502
               ELSE resp[p].status = 500

\* The request of q is reading the cache entry (line 141).
ReadsEntry(q) == pc[q] \in {"check_buffer", "check_age"}

\* C11: whenever a request reads the cache entry, the buffer and the
\* timestamp it finds were written by the same regeneration: the buffer of
\* a request that is still being handled is never paired with a timestamp
\* other than that request's own.
C11_EntryWrittenTogether ==
    \A p \in ConcProcs : \A q \in ConcProcs \ {p} :
        (/\ ReadsEntry(q)
         /\ processed[p] # NullRef
         /\ cached_image_buffer = processed[p])
            => last_generation_time = now[p]

\* C12: when a request that regenerated the entry completes, the entry is
\* fresh: a request arriving at that moment is a cache hit.
C12_Step ==
    \A p \in Procs :
        (pc[p] = "stream" /\ pc'[p] = "done" /\ processed[p] # NullRef)
            => IsFresh(clock', last_generation_time')

C12_FreshAfterOverwrite == [][C12_Step]_vars

\* The request of p executes line 153.
Writes(p) == pc[p] = "store_buffer" /\ pc'[p] = "store_time"

\* C13, steps: a request that regenerated stores its own buffer over
\* whatever is cached, nothing else changes the cached buffer (so the
\* buffer of the last writer stays), and a cache hit sends the buffer that is
\* cached.
C13_Step ==
    /\ \A p \in ConcProcs : Writes(p) => cached_image_buffer' = processed[p]
    /\ (\A p \in ConcProcs : ~Writes(p))
           => cached_image_buffer' = cached_image_buffer
    /\ \A q \in ConcProcs :
           (pc[q] = "send_cached" /\ pc'[q] = "stream")
               => file'[q] = cached_image_buffer

\* The request of p regenerated and is past line 153.
HasWritten(p) ==
    /\ processed[p] # NullRef
    /\ pc[p] \in {"store_time", "send_generated", "stream", "done"}

\* C13, state: once all the overlapping requests have regenerated and
\* written, the cache holds the buffer of one of them.
C13_Held ==
    (\A p \in ConcProcs : HasWritten(p))
        => cached_image_buffer \in {processed[p] : p \in ConcProcs}

C14_CompleteBody ==
    \A p \in ConcProcs :
        (pc[p] = "done" /\ resp[p].status = 200)
            => resp[p].body = heap[file[p]].data

\* The number of steps the request of p can still take, at most: the
\* statements left on the longest path to its return statement, the
\* iterations left in the loop of get_best_cat_url and the chunks left to
\* read from the buffer it sends.
Remaining(p) ==
    LET left == IF file[p] = NullRef THEN NChunks
                ELSE Len(heap[file[p]].data) - heap[file[p]].pos
        tail == NChunks + 1
    IN  CASE pc[p] = "idle"            -> 0
          [] pc[p] = "done"            -> 0
          [] pc[p] = "stream"          -> left + 1
          [] pc[p] = "send_generated"  -> tail + 1
          [] pc[p] = "store_time"      -> tail + 2
          [] pc[p] = "store_buffer"    -> tail + 3
          [] pc[p] = "processed_check" -> tail + 4
          [] pc[p] = "encode"          -> tail + 5
          [] pc[p] = "crop"            -> tail + 6
          [] pc[p] = "download"        -> tail + 7
          [] pc[p] = "url_check"       -> tail + 8
          [] pc[p] = "fetch_random"    -> tail + 9
          [] pc[p] = "fetch_tag"       -> tail + 10 + (Attempts - attempt[p])
          [] pc[p] = "send_cached"     -> tail + 1
          [] pc[p] = "seek_cached"     -> tail + 2
          [] pc[p] = "check_age"       -> tail + 11 + Attempts
          [] pc[p] = "check_buffer"    -> tail + 12 + Attempts

\* C15, bounds: at most three metadata queries and one download per
\* request, the download only with a URL; a request that has not returned
\* can take a step (the resize and crop of lines 101-116 is a total
\* computation on the picture's size and is left out of this test), and a
\* request that has returned has a response.
C15_Bounds ==
    \A p \in Procs :
        /\ Len(queries[p]) <= 3
        /\ downloads[p] <= 1
        /\ downloads[p] = 1 => Truthy(cat_url[p])
        /\ Remaining(p) >= 0
        /\ pc[p] \notin {"idle", "done", "crop"} => ENABLED (Alone(p) /\ Step(p))
        /\ pc[p] = "done" => resp[p].status \in {200, 500, 502}

\* C15, steps: every step of a request brings it nearer to its return
\* statement; a download happens only as the first download of a request
\* that has a URL and has processed nothing yet, and a request that has
\* downloaded issues no further query.
C15_Step ==
    \A p \in Procs :
        /\ (pc[p] \notin {"idle", "done"} /\ <<pc[p], resp[p]>>' # <<pc[p], resp[p]>>)
               => Remaining(p)' < Remaining(p)
        /\ downloads'[p] > downloads[p] =>
             /\ downloads[p] = 0
             /\ Truthy(cat_url[p])
             /\ processed[p] = NullRef
        /\ (downloads[p] > 0 /\ pc'[p] # "idle") => queries'[p] = queries[p]

\* C15: every request terminates with a response, after at most three
\* metadata queries and at most one download, without a retry, and the
\* download is attempted only if the resolver returned a URL.
C15_TerminatesBounded == [][C15_Step]_vars /\ []C15_Bounds

\* A request has been answered after three queries and a download that
\* failed.
C15_Witness ==
    \E p \in Procs :
        /\ pc[p] = "done"
        /\ Len(queries[p]) = 3
        /\ downloads[p] = 1
        /\ r[p] = "transport_error"
        /\ resp[p] = ErrProcessing

\* The scaled size, the target size and the crop offset on the axis that
\* is cropped.
Scaled(g) == IF g.axis = "height" THEN g.resized[2] ELSE g.resized[1]
Target(g) == IF g.axis = "height" THEN DISPLAY_HEIGHT ELSE DISPLAY_WIDTH
Before(g) == IF g.axis = "height" THEN g.box[2] ELSE g.box[1]
After(g) == IF g.axis = "height" THEN g.resized[2] - g.box[4]
            ELSE g.resized[1] - g.box[3]

\* C16: the crop offset is floor((scaled - target) / 2): the rows or
\* columns trimmed after the window minus those trimmed before it are 0
\* for an even overflow and 1 for an odd one; a 1600x1600 source is scaled
\* to 800x800 and cropped to the rows [160, 640).
C16_FloorCentered ==
    \A p \in Procs :
        pc[p] = "encode" =>
            LET g == geom[p]
                overflow == Scaled(g) - Target(g)
            IN  /\ 2 * Before(g) <= overflow
                /\ overflow < 2 * Before(g) + 2
                /\ After(g) - Before(g) = overflow % 2
                /\ (img[p].width = 1600 /\ img[p].height = 1600) =>
                     /\ g.resized = <<800, 800>>
                     /\ g.box = <<0, 160, 800, 640>>

\* A picture has been cropped with an odd overflow.
C16_Witness ==
    \E p \in Procs :
        /\ pc[p] = "encode"
        /\ Scaled(geom[p]) - Target(geom[p]) > 0
        /\ (Scaled(geom[p]) - Target(geom[p])) % 2 = 1
        /\ After(geom[p]) = Before(geom[p]) + 1

\* The identifier the URL is to be built from: '_id' when present and not
\* empty, otherwise 'id'.
ExpectedId(d) ==
    IF d._id \notin {Missing, NONE, ""} THEN d._id
    ELSE IF d.id \notin {Missing, NONE, ""} THEN d.id
    ELSE NONE

\* C17: after a successful answer that does not declare a GIF, the
\* resolver returns the URL built from '_id', or else from 'id'; with
\* neither it goes on to the next attempt or returns None.
C17_IdSelection ==
    \A p \in Procs :
        (/\ queries[p] # <<>>
         /\ data[p].kind = "dict"
         /\ ~HasGif(Get(data[p].mimetype, "")))
            => IF ExpectedId(data[p]) # NONE
               THEN pc[p] = "url_check" /\ cat_url[p] = ExpectedId(data[p])
               ELSE /\ pc[p] \in {"fetch_tag", "fetch_random", "url_check"}
                    /\ ~Truthy(cat_url[p])

\* C18: last_generation_time never decreases.
C18_TimeMonotone == [][last_generation_time' >= last_generation_time]_vars

====
